---- MODULE Spec2Model ----
(***************************************************************************)
(* l2g: L-system expansion (l2g/l_system.py) and its interpretation as     *)
(* turtle motion emitting G-code instructions (l2g/code_gen.py).           *)
(*                                                                         *)
(* Numbers.  Coordinates are kept in hundredths of a millimetre (Unit),    *)
(* so LINE_DEPTH = -0.5 is -50.  Angles are kept in quarter turns, so      *)
(* math.tau is 4 and math.pi / 2 is 1; cos and sin are exact on these      *)
(* angles.  The floating-point rounding of math.cos / math.sin at          *)
(* multiples of pi/2 is outside the model.                                 *)
(***************************************************************************)
EXTENDS Integers, Sequences, FiniteSets, TLC

(* ---------------------------- bounds ---------------------------------- *)
MaxLen == 4        \* longest symbol sequence handed to build_g_code
MaxTurn == 2       \* largest angle_increment, in quarter turns
MaxInitAngle == 1  \* largest init_angle, in quarter turns
MaxStep == 1       \* largest step_size of the build_g_code runs, in mm
MaxAxiom == 2      \* longest axiom of the grammars that are constructed
MaxRhs == 2        \* longest right-hand side of their production rules
MaxIter == 2       \* largest iteration count
MaxConcIter == 1   \* largest iteration count of two interleaved compile calls

(* ------------------------ program constants --------------------------- *)
Unit == 100
FEED_RATE == 100
LINE_DEPTH == -50
SAFE_Z == 300
TAU == 4
inf == 1000000000
START_Z == 1000
RETRACT_Z == 500
None == -1
RAPID_POSITIONING == 0
LINEAR_INTERPOLATION == 1

Symbol == {"A", "B", "X", "F", "G", "+", "-", "[", "]"}

SeqUpTo(S, k) == UNION {[1..m -> S] : m \in 0..k}

(* --------------------------- geometry --------------------------------- *)
Vector2D(x, y) == [x |-> x, y |-> y]

Position3D(x, y, z) == [x |-> x, y |-> y, z |-> z]

Position3DEq(p, q) == p.x = q.x /\ p.y = q.y /\ p.z = q.z

add(p, v) == Position3D(p.x + v.x, p.y + v.y, p.z)

aboveFlat(p) == Position3D(p.x, p.y, p.z)

above(p) == Position3D(p.x, p.y, SAFE_Z)

GCodeInstruction(command, dst_pos) ==
    [command |-> command, dst_pos |-> dst_pos, feed_rate |-> FEED_RATE]

\* an instruction given an explicit feed_rate, None included
GCodeInstructionWith(command, dst_pos, feed_rate) ==
    [command |-> command, dst_pos |-> dst_pos, feed_rate |-> feed_rate]

(* Text.  A number is written as a sign, the digits before the point and   *)
(* the digits after it; no digits after it means no point was written.     *)
NumText(neg, whole, frac) == [neg |-> neg, whole |-> whole, frac |-> frac]

Abs(v) == IF v < 0 THEN -v ELSE v

\* str() of a float that round(v, 2) returned: shortest form, at least one
\* digit after the point
ReprFloat(v) ==
    LET f == Abs(v) % Unit
    IN NumText(v < 0, Abs(v) \div Unit,
               IF f % 10 = 0 THEN <<f \div 10>> ELSE <<f \div 10, f % 10>>)

\* str() of an int that round(v, 2) returned
ReprInt(v) == NumText(v < 0, Abs(v) \div Unit, <<>>)

\* format(v, ".2f")
Fixed2(v) ==
    IF Abs(v) = inf THEN NumText(v < 0, inf, <<>>)
    ELSE LET f == Abs(v) % Unit
         IN NumText(v < 0, Abs(v) \div Unit, <<f \div 10, f % 10>>)

\* x and y are always floats; z is a float (LINE_DEPTH) or one of the int
\* literals 3, 10, 5 given to above(), Position3D(z=10) and last_pos.z
IsPyInt(z) == z \in {SAFE_Z, START_Z, RETRACT_Z}

build_pos(p) ==
    <<ReprFloat(p.x), ReprFloat(p.y),
      IF IsPyInt(p.z) THEN ReprInt(p.z) ELSE ReprFloat(p.z)>>

Line(op, args, suffix) == [op |-> op, args |-> args, suffix |-> suffix]

CommandText(command) == IF command = RAPID_POSITIONING THEN "G00" ELSE "G01"

buildAlwaysFeed(i) ==
    Line(CommandText(i.command), build_pos(i.dst_pos),
         IF i.feed_rate # None THEN <<i.feed_rate>> ELSE <<>>)

build(i) ==
    Line(CommandText(i.command), build_pos(i.dst_pos),
         IF i.feed_rate # None /\ i.command # RAPID_POSITIONING
         THEN <<i.feed_rate>> ELSE <<>>)

range_str(r) == <<Fixed2(r.min), Fixed2(r.max)>>

Orientation(angle) == [angle |-> angle % TAU]

OrientationEq(a, b) == a.angle = b.angle

angle_increment_by(o, da) == Orientation(o.angle + da)

cos(a) == CASE a = 0 -> 1 [] a = 1 -> 0 [] a = 2 -> -1 [] a = 3 -> 0

sin(a) == CASE a = 0 -> 0 [] a = 1 -> 1 [] a = 2 -> 0 [] a = 3 -> -1

to_vector(o, scale) == Vector2D(scale * cos(o.angle), scale * sin(o.angle))

PositionRange(lo, hi) == [min |-> lo, max |-> hi]

updateCollapse(r, curr_pos) ==
    IF curr_pos < r.min THEN PositionRange(curr_pos, r.max)
    ELSE IF curr_pos > r.max THEN PositionRange(curr_pos, curr_pos)
    ELSE r

update(r, curr_pos) ==
    IF curr_pos < r.min THEN PositionRange(curr_pos, r.max)
    ELSE IF curr_pos > r.max THEN PositionRange(r.min, curr_pos)
    ELSE r

TurtleState(position, orientation) ==
    [position |-> position, orientation |-> orientation]

TurtleStateNe(a, b) ==
    ~(Position3DEq(a.position, b.position) /\ OrientationEq(a.orientation, b.orientation))

TurtleStateEq(a, b) ==
    Position3DEq(a.position, b.position) /\ OrientationEq(a.orientation, b.orientation)

(* ----------------------------- state ---------------------------------- *)
VARIABLES
    entry,            \* the function the caller invoked
    pc,               \* position of the running call
    error,            \* exception that ended the call, or "none"
    axiom,            \* LSystem.axiom
    production_rules, \* LSystem.production_rules
    n,                \* nth_iteration: parameter
    iter,             \* nth_iteration: passes of the for loop done
    curr,             \* nth_iteration: local
    ret,              \* values returned by nth_iteration so far, by n
    nb_iterations,    \* compile_program: parameter
    result,           \* compile_program: the ProgramWithMeta returned
    symbols,          \* build_g_code: the sequence being interpreted
    angle_increment,  \* build_g_code: parameter (quarter turns)
    step_size,        \* build_g_code: parameter (hundredths)
    init_angle,       \* build_g_code: parameter (quarter turns)
    idx,              \* build_g_code: symbols consumed by the for loop
    heap,             \* TurtleState objects, by identity
    state,            \* build_g_code: the object the local `state` names
    stack,            \* build_g_code: objects on the branch stack, top last
    saved,            \* value of the turtle state when each open `[` was read
    x_range,
    y_range,
    program,          \* build_g_code: instructions emitted so far
    lines,            \* write_nc: local
    file,             \* what write_nc wrote to the destination
    other,            \* the suspended one of two interleaved compile calls
    same_system,      \* whether the two calls were given the same LSystem
    call_args         \* arguments of the running and of the suspended call

lsystem_vars == <<axiom, production_rules>>

nth_vars == <<n, iter, curr, ret>>

param_vars == <<symbols, angle_increment, step_size, init_angle>>

turtle_vars == <<idx, heap, state, stack, saved, x_range, y_range, program>>

out_vars == <<lines, file>>

conc_vars == <<other, same_system, call_args>>

vars == <<entry, pc, error, lsystem_vars, nth_vars, nb_iterations, result,
          param_vars, turtle_vars, out_vars, conc_vars>>

curr_state == heap[state]

(* ------------------------- build_g_code ------------------------------- *)
\* the locals of build_g_code when it reaches its loop
StartState(ia) == TurtleState(Position3D(0, 0, LINE_DEPTH), Orientation(ia))

EmptyRange == PositionRange(inf, -inf)

AtSymbol(S) ==
    /\ pc = "build_g_code"
    /\ idx < Len(symbols)
    /\ symbols[idx + 1] \in S

TurnLeftFallThrough ==
    /\ AtSymbol({"+"})
    /\ heap' = [heap EXCEPT ![state].orientation =
                    angle_increment_by(@, angle_increment)]
    /\ x_range' = update(x_range, curr_state.position.x)
    /\ y_range' = update(y_range, curr_state.position.y)
    /\ program' = Append(program,
                         GCodeInstruction(LINEAR_INTERPOLATION, curr_state.position))
    /\ idx' = idx + 1
    /\ UNCHANGED <<out_vars, conc_vars>>
    /\ UNCHANGED <<entry, lsystem_vars, nth_vars, nb_iterations, result>>
    /\ UNCHANGED <<pc, error, symbols, angle_increment, step_size, init_angle,
                   state, stack, saved>>

TurnLeft ==
    /\ AtSymbol({"+"})
    /\ heap' = [heap EXCEPT ![state].orientation =
                    angle_increment_by(@, angle_increment)]
    /\ idx' = idx + 1
    /\ UNCHANGED <<out_vars, conc_vars>>
    /\ UNCHANGED <<entry, lsystem_vars, nth_vars, nb_iterations, result>>
    /\ UNCHANGED <<pc, error, symbols, angle_increment, step_size, init_angle,
                   state, stack, saved, x_range, y_range, program>>

TurnRight ==
    /\ AtSymbol({"-"})
    /\ heap' = [heap EXCEPT ![state].orientation =
                    angle_increment_by(@, -angle_increment)]
    /\ idx' = idx + 1
    /\ UNCHANGED <<out_vars, conc_vars>>
    /\ UNCHANGED <<entry, lsystem_vars, nth_vars, nb_iterations, result>>
    /\ UNCHANGED <<pc, error, symbols, angle_increment, step_size, init_angle,
                   state, stack, saved, x_range, y_range, program>>

Forward ==
    /\ AtSymbol({"F", "G"})
    /\ LET new_pos == add(curr_state.position,
                          to_vector(curr_state.orientation, step_size))
       IN /\ heap' = [heap EXCEPT ![state].position = new_pos]
          /\ x_range' = update(x_range, new_pos.x)
          /\ y_range' = update(y_range, new_pos.y)
          /\ program' = Append(program,
                               GCodeInstruction(LINEAR_INTERPOLATION, new_pos))
    /\ idx' = idx + 1
    /\ UNCHANGED <<out_vars, conc_vars>>
    /\ UNCHANGED <<entry, lsystem_vars, nth_vars, nb_iterations, result>>
    /\ UNCHANGED <<pc, error, symbols, angle_increment, step_size, init_angle,
                   state, stack, saved>>

PushAlias ==
    /\ AtSymbol({"["})
    /\ stack' = Append(stack, state)
    /\ saved' = Append(saved, curr_state)
    /\ idx' = idx + 1
    /\ UNCHANGED <<out_vars, conc_vars>>
    /\ UNCHANGED <<entry, lsystem_vars, nth_vars, nb_iterations, result>>
    /\ UNCHANGED <<pc, error, symbols, angle_increment, step_size, init_angle,
                   heap, state, x_range, y_range, program>>

\* copy(state): a new object with the fields of the current one
Push ==
    /\ AtSymbol({"["})
    /\ heap' = Append(heap, curr_state)
    /\ stack' = Append(stack, Len(heap) + 1)
    /\ saved' = Append(saved, curr_state)
    /\ idx' = idx + 1
    /\ UNCHANGED <<out_vars, conc_vars>>
    /\ UNCHANGED <<entry, lsystem_vars, nth_vars, nb_iterations, result>>
    /\ UNCHANGED <<pc, error, symbols, angle_increment, step_size, init_angle,
                   state, x_range, y_range, program>>

PopEmptySkip ==
    /\ AtSymbol({"]"})
    /\ stack = <<>>
    /\ idx' = idx + 1
    /\ UNCHANGED <<out_vars, conc_vars>>
    /\ UNCHANGED <<entry, lsystem_vars, nth_vars, nb_iterations, result>>
    /\ UNCHANGED <<pc, error, symbols, angle_increment, step_size, init_angle,
                   heap, state, stack, saved, x_range, y_range, program>>

\* stack.pop() on an empty list raises IndexError
PopEmpty ==
    /\ AtSymbol({"]"})
    /\ stack = <<>>
    /\ pc' = "raised"
    /\ error' = "IndexError"
    /\ UNCHANGED <<out_vars, conc_vars>>
    /\ UNCHANGED <<entry, lsystem_vars, nth_vars, nb_iterations, result>>
    /\ UNCHANGED <<symbols, angle_increment, step_size, init_angle, idx,
                   heap, state, stack, saved, x_range, y_range, program>>

PopUnchanged ==
    /\ AtSymbol({"]"})
    /\ stack # <<>>
    /\ LET prev_state == stack[Len(stack)]
       IN TurtleStateEq(heap[prev_state], curr_state)
    /\ stack' = SubSeq(stack, 1, Len(stack) - 1)
    /\ saved' = SubSeq(saved, 1, Len(saved) - 1)
    /\ idx' = idx + 1
    /\ UNCHANGED <<out_vars, conc_vars>>
    /\ UNCHANGED <<entry, lsystem_vars, nth_vars, nb_iterations, result>>
    /\ UNCHANGED <<pc, error, symbols, angle_increment, step_size, init_angle,
                   heap, state, x_range, y_range, program>>

PopRecoverNoRestore ==
    /\ AtSymbol({"]"})
    /\ stack # <<>>
    /\ LET prev_state == stack[Len(stack)]
           above_curr == above(curr_state.position)
           above_prev == above(heap[prev_state].position)
       IN /\ ~TurtleStateEq(heap[prev_state], curr_state)
          /\ program' = program \o
                 << GCodeInstruction(RAPID_POSITIONING, above_curr),
                    GCodeInstruction(RAPID_POSITIONING, above_prev),
                    GCodeInstruction(LINEAR_INTERPOLATION,
                                     heap[prev_state].position) >>
    /\ stack' = SubSeq(stack, 1, Len(stack) - 1)
    /\ saved' = SubSeq(saved, 1, Len(saved) - 1)
    /\ idx' = idx + 1
    /\ UNCHANGED <<out_vars, conc_vars>>
    /\ UNCHANGED <<entry, lsystem_vars, nth_vars, nb_iterations, result>>
    /\ UNCHANGED <<pc, error, symbols, angle_increment, step_size, init_angle,
                   heap, state, x_range, y_range>>

PopRecover ==
    /\ AtSymbol({"]"})
    /\ stack # <<>>
    /\ LET prev_state == stack[Len(stack)]
           above_curr == above(curr_state.position)
           above_prev == above(heap[prev_state].position)
       IN /\ ~TurtleStateEq(heap[prev_state], curr_state)
          /\ program' = program \o
                 << GCodeInstruction(RAPID_POSITIONING, above_curr),
                    GCodeInstruction(RAPID_POSITIONING, above_prev),
                    GCodeInstruction(LINEAR_INTERPOLATION,
                                     heap[prev_state].position) >>
          /\ state' = prev_state
    /\ stack' = SubSeq(stack, 1, Len(stack) - 1)
    /\ saved' = SubSeq(saved, 1, Len(saved) - 1)
    /\ idx' = idx + 1
    /\ UNCHANGED <<out_vars, conc_vars>>
    /\ UNCHANGED <<entry, lsystem_vars, nth_vars, nb_iterations, result>>
    /\ UNCHANGED <<pc, error, symbols, angle_increment, step_size, init_angle,
                   heap, x_range, y_range>>

Ignore ==
    /\ AtSymbol(Symbol \ {"+", "-", "F", "G", "[", "]"})
    /\ idx' = idx + 1
    /\ UNCHANGED <<out_vars, conc_vars>>
    /\ UNCHANGED <<entry, lsystem_vars, nth_vars, nb_iterations, result>>
    /\ UNCHANGED <<pc, error, symbols, angle_increment, step_size, init_angle,
                   heap, state, stack, saved, x_range, y_range, program>>

BuildReturn ==
    /\ pc = "build_g_code"
    /\ idx = Len(symbols)
    /\ pc' = IF entry = "compile_program" THEN "compile_207" ELSE "returned"
    /\ UNCHANGED <<out_vars, conc_vars>>
    /\ UNCHANGED <<entry, lsystem_vars, nth_vars, nb_iterations, result>>
    /\ UNCHANGED <<error, symbols, angle_increment, step_size, init_angle, idx,
                   heap, state, stack, saved, x_range, y_range, program>>

NoRules == [s \in {} |-> <<>>]

NoFile == [written |-> FALSE, text |-> <<>>]

NoFrame == [pc |-> "none"]

NoResult == [code |-> <<>>, x_range |-> EmptyRange, y_range |-> EmptyRange,
             nb_iterations |-> 0, step_size |-> 0, angle_increment |-> 0,
             init_angle |-> 0]

StepSizes == {k * Unit : k \in 1..MaxStep}

(* build_g_code run on its own, on every short symbol sequence *)
InitTurtle ==
    /\ entry = "build_g_code"
    /\ pc = "build_g_code"
    /\ error = "none"
    /\ axiom = <<>>
    /\ production_rules = NoRules
    /\ n = 0
    /\ iter = 0
    /\ curr = <<>>
    /\ ret = <<>>
    /\ nb_iterations = 0
    /\ result = NoResult
    /\ symbols \in SeqUpTo(Symbol, MaxLen)
    /\ angle_increment \in 1..MaxTurn
    /\ step_size \in StepSizes
    /\ init_angle \in 0..MaxInitAngle
    /\ idx = 0
    /\ heap = <<StartState(init_angle)>>
    /\ state = 1
    /\ stack = <<>>
    /\ saved = <<>>
    /\ x_range = EmptyRange
    /\ y_range = EmptyRange
    /\ program = <<>>
    /\ lines = <<>>
    /\ file = NoFile
    /\ other = NoFrame
    /\ same_system = TRUE
    /\ call_args = <<>>

NextTurtle ==
    \/ TurnLeft
    \/ TurnRight
    \/ Forward
    \/ Push
    \/ PopEmpty
    \/ PopUnchanged
    \/ PopRecover
    \/ Ignore
    \/ BuildReturn

SpecTurtle == InitTurtle /\ [][NextTurtle]_vars

(* ----------------------------- LSystem -------------------------------- *)
RECURSIVE next_strDrop(_, _)
next_strDrop(rules, c) ==
    IF c = <<>> THEN <<>>
    ELSE (IF Head(c) \in DOMAIN rules THEN rules[Head(c)] ELSE <<>>)
         \o next_strDrop(rules, Tail(c))

RECURSIVE next_str(_, _)
next_str(rules, c) ==
    IF c = <<>> THEN <<>>
    ELSE (IF Head(c) \in DOMAIN rules THEN rules[Head(c)] ELSE <<Head(c)>>)
         \o next_str(rules, Tail(c))

\* the symbols grammars are built from: part of the alphabet, and one symbol
\* that is not in it
GrammarSymbol == {"A", "F", "Z"}

RuleKeys == {"A", "F"}

Axioms == SeqUpTo(GrammarSymbol, MaxAxiom)

RuleMaps == UNION {[K -> SeqUpTo(GrammarSymbol, MaxRhs)] : K \in SUBSET RuleKeys}

LSystemInit ==
    /\ pc = "new"
    /\ \E a \in Axioms, r \in RuleMaps :
          /\ axiom' = a
          /\ production_rules' = r
    /\ pc' = "idle"
    /\ UNCHANGED <<out_vars, conc_vars>>
    /\ UNCHANGED <<entry, error, nth_vars, nb_iterations, result, param_vars,
                   turtle_vars>>

CallNthIterationExtra ==
    /\ pc = "idle"
    /\ \E k \in (0..MaxIter) \ DOMAIN ret : n' = k
    /\ curr' = axiom
    /\ iter' = -1
    /\ pc' = "nth_iteration"
    /\ UNCHANGED <<out_vars, conc_vars>>
    /\ UNCHANGED <<entry, error, lsystem_vars, ret, nb_iterations, result,
                   param_vars, turtle_vars>>

CallNthIteration ==
    /\ pc = "idle"
    /\ \E k \in (0..MaxIter) \ DOMAIN ret : n' = k
    /\ curr' = axiom
    /\ iter' = 0
    /\ pc' = "nth_iteration"
    /\ UNCHANGED <<out_vars, conc_vars>>
    /\ UNCHANGED <<entry, error, lsystem_vars, ret, nb_iterations, result,
                   param_vars, turtle_vars>>

NthIterationStepInPlace ==
    /\ pc = "nth_iteration"
    /\ iter < n
    /\ curr' = next_str(production_rules, curr)
    /\ axiom' = curr'
    /\ iter' = iter + 1
    /\ UNCHANGED <<out_vars, conc_vars>>
    /\ UNCHANGED <<entry, pc, error, production_rules, n, ret, nb_iterations,
                   result, param_vars, turtle_vars>>

NthIterationStep ==
    /\ pc = "nth_iteration"
    /\ iter < n
    /\ curr' = next_str(production_rules, curr)
    /\ iter' = iter + 1
    /\ UNCHANGED <<out_vars, conc_vars>>
    /\ UNCHANGED <<entry, pc, error, lsystem_vars, n, ret, nb_iterations,
                   result, param_vars, turtle_vars>>

NthIterationReturn ==
    /\ pc = "nth_iteration"
    /\ iter = n
    /\ ret' = (n :> curr) @@ ret
    /\ pc' = IF entry = "compile_program" THEN "compile_201" ELSE "idle"
    /\ UNCHANGED <<out_vars, conc_vars>>
    /\ UNCHANGED <<entry, error, lsystem_vars, n, iter, curr, nb_iterations,
                   result, param_vars, turtle_vars>>

(* an LSystem is constructed, then nth_iteration is called on it *)
InitLSystem ==
    /\ entry = "nth_iteration"
    /\ pc = "new"
    /\ error = "none"
    /\ axiom = <<>>
    /\ production_rules = NoRules
    /\ n = 0
    /\ iter = 0
    /\ curr = <<>>
    /\ ret = <<>>
    /\ nb_iterations = 0
    /\ result = NoResult
    /\ symbols = <<>>
    /\ angle_increment = 0
    /\ step_size = 0
    /\ init_angle = 0
    /\ idx = 0
    /\ heap = <<StartState(0)>>
    /\ state = 1
    /\ stack = <<>>
    /\ saved = <<>>
    /\ x_range = EmptyRange
    /\ y_range = EmptyRange
    /\ program = <<>>
    /\ lines = <<>>
    /\ file = NoFile
    /\ other = NoFrame
    /\ same_system = TRUE
    /\ call_args = <<>>

NextLSystem ==
    \/ LSystemInit
    \/ CallNthIteration
    \/ NthIterationStep
    \/ NthIterationReturn

SpecLSystem == InitLSystem /\ [][NextLSystem]_vars

(* -------------------- properties of the LSystem ------------------------ *)
\* C1: nth_iteration(k + 1) is one rewriting step (_next_str) applied to
\* nth_iteration(k), for every grammar and every k.
C1_Composable ==
    \A k \in DOMAIN ret :
        (k + 1) \in DOMAIN ret => ret[k + 1] = next_str(production_rules, ret[k])

C1_Witness ==
    /\ DOMAIN ret = 0..2
    /\ Len(ret[2]) > Len(ret[1])
    /\ Len(ret[1]) > Len(ret[0])

NonErasing(rules) == \A s \in DOMAIN rules : rules[s] # <<>>

\* C9 as stated: for every LSystem the length of nth_iteration(k + 1) is at
\* least the length of nth_iteration(k).
C9_Original ==
    \A k \in DOMAIN ret :
        (k + 1) \in DOMAIN ret => Len(ret[k + 1]) >= Len(ret[k])

\* C9 (amended): when no production rule has an empty right-hand side, the
\* length of nth_iteration(k + 1) is at least the length of nth_iteration(k).
C9_NonErasing ==
    NonErasing(production_rules) =>
        \A k \in DOMAIN ret :
            (k + 1) \in DOMAIN ret => Len(ret[k + 1]) >= Len(ret[k])

C9_Witness ==
    /\ NonErasing(production_rules)
    /\ DOMAIN production_rules # {}
    /\ {0, 1} \subseteq DOMAIN ret
    /\ Len(ret[1]) > Len(ret[0])

\* C13: nth_iteration(0) returns the axiom unchanged, also when symbols of
\* the axiom have a production rule.
C13_ZeroIsAxiom == 0 \in DOMAIN ret => ret[0] = axiom

C13_Witness ==
    /\ 0 \in DOMAIN ret
    /\ axiom # <<>>
    /\ axiom[1] \in DOMAIN production_rules
    /\ production_rules[axiom[1]] # <<axiom[1]>>

InAlphabet(seq) == \A i \in 1..Len(seq) : seq[i] \in Symbol

ValidGrammar(a, rules) ==
    /\ InAlphabet(a)
    /\ \A s \in DOMAIN rules : InAlphabet(rules[s])

\* C10: a grammar whose axiom or rule right-hand sides hold a symbol outside
\* the alphabet is rejected with InvalidGrammar when it is constructed; it is
\* never accepted.
C10_InvalidGrammar ==
    ~ValidGrammar(axiom, production_rules) =>
        /\ error = "InvalidGrammar"
        /\ pc = "raised"

(* -------------------------- compile_program --------------------------- *)
PresetStep == 5

LSystem(a, rules) == [axiom |-> a, production_rules |-> rules]

KOCH_CURVE ==
    LSystem(<<"F">>, [s \in {"F"} |-> <<"F", "+", "F", "-", "F", "-", "F", "+", "F">>])

HILBERT_CURVE ==
    LSystem(<<"A">>,
            [s \in {"A", "B"} |->
                IF s = "A"
                THEN <<"+", "B", "F", "-", "A", "F", "A", "-", "F", "B", "+">>
                ELSE <<"-", "A", "F", "+", "B", "F", "B", "+", "F", "A", "-">>])

BARNSLEY_FERN ==
    LSystem(<<"-", "X">>,
            [s \in {"X", "F"} |->
                IF s = "X"
                THEN <<"F", "+", "[", "[", "X", "]", "-", "X", "]", "-", "F",
                       "[", "-", "F", "X", "]", "+", "X">>
                ELSE <<"F", "F">>])

\* the preset grammars, and every short axiom without rules
Systems ==
    {KOCH_CURVE, HILBERT_CURVE, BARNSLEY_FERN}
        \cup {LSystem(a, NoRules) : a \in SeqUpTo(Symbol, MaxAxiom)}

ProgramWithMeta(code, xr, yr, nb, ss, ai, ia) ==
    [code |-> code, x_range |-> xr, y_range |-> yr, nb_iterations |-> nb,
     step_size |-> ss, angle_increment |-> ai, init_angle |-> ia]

CompileCallNth ==
    /\ pc = "compile_200"
    /\ n' = nb_iterations
    /\ curr' = axiom
    /\ iter' = 0
    /\ pc' = "nth_iteration"
    /\ UNCHANGED <<out_vars, conc_vars>>
    /\ UNCHANGED <<entry, error, lsystem_vars, ret, nb_iterations, result,
                   param_vars, turtle_vars>>

CompileCallBuild ==
    /\ pc = "compile_201"
    /\ symbols' = curr
    /\ idx' = 0
    /\ heap' = <<StartState(init_angle)>>
    /\ state' = 1
    /\ stack' = <<>>
    /\ saved' = <<>>
    /\ x_range' = EmptyRange
    /\ y_range' = EmptyRange
    /\ program' = <<>>
    /\ pc' = "build_g_code"
    /\ UNCHANGED <<out_vars, conc_vars>>
    /\ UNCHANGED <<entry, error, lsystem_vars, nth_vars, nb_iterations, result,
                   angle_increment, step_size, init_angle>>

CompileReturn ==
    /\ pc = "compile_207"
    /\ result' = ProgramWithMeta(program, x_range, y_range, nb_iterations,
                                 step_size, angle_increment, init_angle)
    /\ pc' = "returned"
    /\ UNCHANGED <<out_vars, conc_vars>>
    /\ UNCHANGED <<entry, error, lsystem_vars, nth_vars, nb_iterations,
                   param_vars, turtle_vars>>

(* compile_program called on a constructed LSystem *)
Init ==
    /\ entry = "compile_program"
    /\ pc = "compile_200"
    /\ error = "none"
    /\ \E sys \in Systems :
          /\ axiom = sys.axiom
          /\ production_rules = sys.production_rules
    /\ n = 0
    /\ iter = 0
    /\ curr = <<>>
    /\ ret = <<>>
    /\ nb_iterations \in 0..MaxIter
    /\ result = NoResult
    /\ symbols = <<>>
    /\ angle_increment \in 1..MaxTurn
    /\ step_size = PresetStep * Unit
    /\ init_angle \in 0..MaxInitAngle
    /\ idx = 0
    /\ heap = <<StartState(init_angle)>>
    /\ state = 1
    /\ stack = <<>>
    /\ saved = <<>>
    /\ x_range = EmptyRange
    /\ y_range = EmptyRange
    /\ program = <<>>
    /\ lines = <<>>
    /\ file = NoFile
    /\ other = NoFrame
    /\ same_system = TRUE
    /\ call_args = <<>>

Next ==
    \/ CompileCallNth
    \/ NthIterationStep
    \/ NthIterationReturn
    \/ CompileCallBuild
    \/ TurnLeft
    \/ TurnRight
    \/ Forward
    \/ Push
    \/ PopEmpty
    \/ PopUnchanged
    \/ PopRecover
    \/ Ignore
    \/ BuildReturn
    \/ CompileReturn

Spec == Init /\ [][Next]_vars

(* ------------------------------ write_nc ------------------------------ *)
WriteNcLines ==
    /\ pc = "returned"
    /\ entry = "compile_program"
    /\ lines' =
         << Line("; x_range = ", range_str(result.x_range), <<>>),
            Line("; y_range = ", range_str(result.y_range), <<>>),
            Line("M3 S10000", <<>>, <<>>),
            Line("G90", <<>>, <<>>),
            Line("G21", <<>>, <<>>),
            build(GCodeInstructionWith(RAPID_POSITIONING,
                                       Position3D(0, 0, START_Z), None)),
            build(GCodeInstruction(LINEAR_INTERPOLATION,
                                   Position3D(0, 0, LINE_DEPTH))) >>
         \o [j \in 1..Len(result.code) |-> build(result.code[j])]
    /\ pc' = "write_nc_234"
    /\ UNCHANGED <<file, conc_vars>>
    /\ UNCHANGED <<entry, error, lsystem_vars, nth_vars, nb_iterations, result,
                   param_vars, turtle_vars>>

WriteNcEmptySkip ==
    /\ pc = "write_nc_234"
    /\ result.code = <<>>
    /\ lines' = Append(lines, Line("M5", <<>>, <<>>))
    /\ pc' = "write_nc_239"
    /\ UNCHANGED <<file, conc_vars>>
    /\ UNCHANGED <<entry, error, lsystem_vars, nth_vars, nb_iterations, result,
                   param_vars, turtle_vars>>

\* program.code[-1] on an empty list raises IndexError
WriteNcEmpty ==
    /\ pc = "write_nc_234"
    /\ result.code = <<>>
    /\ pc' = "raised"
    /\ error' = "IndexError"
    /\ UNCHANGED <<out_vars, conc_vars>>
    /\ UNCHANGED <<entry, lsystem_vars, nth_vars, nb_iterations, result,
                   param_vars, turtle_vars>>

WriteNcRetractAlias ==
    /\ pc = "write_nc_234"
    /\ result.code # <<>>
    /\ result' = [result EXCEPT !.code[Len(result.code)].dst_pos.z = RETRACT_Z]
    /\ lines' = lines \o
         << build(GCodeInstruction(RAPID_POSITIONING,
                                   result'.code[Len(result.code)].dst_pos)),
            Line("M5", <<>>, <<>>) >>
    /\ pc' = "write_nc_239"
    /\ UNCHANGED <<file, conc_vars>>
    /\ UNCHANGED <<entry, error, lsystem_vars, nth_vars, nb_iterations,
                   param_vars, turtle_vars>>

\* last_pos is a copy of the last event's position with z set to 5
WriteNcRetract ==
    /\ pc = "write_nc_234"
    /\ result.code # <<>>
    /\ LET last == result.code[Len(result.code)].dst_pos
           last_pos == [last EXCEPT !.z = RETRACT_Z]
       IN lines' = lines \o
            << build(GCodeInstruction(RAPID_POSITIONING, last_pos)),
               Line("M5", <<>>, <<>>) >>
    /\ pc' = "write_nc_239"
    /\ UNCHANGED <<file, conc_vars>>
    /\ UNCHANGED <<entry, error, lsystem_vars, nth_vars, nb_iterations, result,
                   param_vars, turtle_vars>>

WriteNcFile ==
    /\ pc = "write_nc_239"
    /\ file' = [written |-> TRUE, text |-> lines]
    /\ pc' = "written"
    /\ UNCHANGED <<lines, conc_vars>>
    /\ UNCHANGED <<entry, error, lsystem_vars, nth_vars, nb_iterations, result,
                   param_vars, turtle_vars>>

(* compile_program, then write_nc on the Program it returned *)
NextWrite ==
    \/ Next
    \/ WriteNcLines
    \/ WriteNcEmpty
    \/ WriteNcRetract
    \/ WriteNcFile

SpecWrite == Init /\ [][NextWrite]_vars

(* --------------------- properties of write_nc -------------------------- *)
EmptyEmit == pc = "write_nc_234" /\ result.code = <<>>

InWriteNc == pc \in {"write_nc_234", "write_nc_239"}

\* C12: for a Program of k >= 1 events the file has k + 9 lines: the two range
\* comments, M3 S10000, G90, G21, a rapid move to the origin at the start
\* height, a linear move to the origin at drawing depth, one line per event in
\* order, a rapid move to the last event's x/y at the retract height, M5; and
\* write_nc leaves the events of the Program as they were.
C12_Layout ==
    /\ [][InWriteNc => result' = result]_vars
    /\ [](file.written =>
            LET k == Len(result.code)
                t == file.text
                last == result.code[k].dst_pos
            IN /\ k >= 1
               /\ Len(t) = k + 9
               /\ t[1] = Line("; x_range = ", range_str(result.x_range), <<>>)
               /\ t[2] = Line("; y_range = ", range_str(result.y_range), <<>>)
               /\ t[3].op = "M3 S10000"
               /\ t[4].op = "G90"
               /\ t[5].op = "G21"
               /\ t[6].op = "G00"
               /\ t[6].args = build_pos(Position3D(0, 0, START_Z))
               /\ t[7].op = "G01"
               /\ t[7].args = build_pos(Position3D(0, 0, LINE_DEPTH))
               /\ \A j \in 1..k :
                     /\ t[7 + j].op = CommandText(result.code[j].command)
                     /\ t[7 + j].args = build_pos(result.code[j].dst_pos)
               /\ t[k + 8].op = "G00"
               /\ t[k + 8].args = build_pos(Position3D(last.x, last.y, RETRACT_Z))
               /\ t[k + 9].op = "M5")

C12_Witness ==
    /\ file.written
    /\ Len(result.code) = 5
    /\ Len(file.text) = 14

IsMotion(l) == l.op \in {"G00", "G01"}

\* C14: every X, Y and Z coordinate of an instruction line is written with
\* exactly 2 digits after the point.
C14_TwoDigits ==
    \A j \in 1..Len(file.text) :
        IsMotion(file.text[j]) =>
            \A a \in 1..3 : Len(file.text[j].args[a].frac) = 2

\* C15: in every emitted program a G00 line carries no feed-rate suffix, also
\* when its instruction has a feed rate (branch recovery, retract), and a G01
\* line carries ` F<feedrate>` exactly when its instruction has one.
C15_FeedSuffix ==
    file.written =>
        LET k == Len(result.code)
            t == file.text
        IN /\ \A j \in 1..Len(t) : t[j].op = "G00" => t[j].suffix = <<>>
           /\ t[7].suffix = <<FEED_RATE>>
           /\ \A j \in 1..k :
                 result.code[j].command = LINEAR_INTERPOLATION =>
                     t[7 + j].suffix =
                        IF result.code[j].feed_rate # None
                        THEN <<result.code[j].feed_rate>> ELSE <<>>

C15_Witness ==
    /\ file.written
    /\ \E j \in 1..Len(result.code) :
          /\ result.code[j].command = RAPID_POSITIONING
          /\ result.code[j].feed_rate = FEED_RATE
          /\ file.text[7 + j].suffix = <<>>
    /\ \E j \in 1..Len(result.code) :
          /\ result.code[j].command = LINEAR_INTERPOLATION
          /\ file.text[7 + j].suffix = <<FEED_RATE>>

(* ------------------ two interleaved compile_program calls ------------- *)
\* everything a call keeps in its own locals and arguments, and the LSystem
\* it was given
Frame ==
    [pc |-> pc, error |-> error, n |-> n, iter |-> iter, curr |-> curr,
     ret |-> ret, nb_iterations |-> nb_iterations, result |-> result,
     symbols |-> symbols, angle_increment |-> angle_increment,
     step_size |-> step_size, init_angle |-> init_angle, idx |-> idx,
     heap |-> heap, state |-> state, stack |-> stack, saved |-> saved,
     x_range |-> x_range, y_range |-> y_range, program |-> program,
     axiom |-> axiom, production_rules |-> production_rules]

CallArgs(sys, nb, ai, ss, ia) ==
    [system |-> sys, nb_iterations |-> nb, angle_increment |-> ai,
     step_size |-> ss, init_angle |-> ia]

\* the locals of a call of compile_program that has not run yet
EntryFrame(a) ==
    [pc |-> "compile_200", error |-> "none", n |-> 0, iter |-> 0,
     curr |-> <<>>, ret |-> <<>>, nb_iterations |-> a.nb_iterations,
     result |-> NoResult, symbols |-> <<>>,
     angle_increment |-> a.angle_increment, step_size |-> a.step_size,
     init_angle |-> a.init_angle, idx |-> 0,
     heap |-> <<StartState(a.init_angle)>>, state |-> 1, stack |-> <<>>,
     saved |-> <<>>, x_range |-> EmptyRange, y_range |-> EmptyRange,
     program |-> <<>>, axiom |-> a.system.axiom,
     production_rules |-> a.system.production_rules]

\* the scheduler suspends the running call and resumes the other one
Switch ==
    /\ other.pc \notin {"none", "returned", "raised"}
    /\ other' = Frame
    /\ call_args' = <<call_args[2], call_args[1]>>
    /\ pc' = other.pc
    /\ error' = other.error
    /\ n' = other.n
    /\ iter' = other.iter
    /\ curr' = other.curr
    /\ ret' = other.ret
    /\ nb_iterations' = other.nb_iterations
    /\ result' = other.result
    /\ symbols' = other.symbols
    /\ angle_increment' = other.angle_increment
    /\ step_size' = other.step_size
    /\ init_angle' = other.init_angle
    /\ idx' = other.idx
    /\ heap' = other.heap
    /\ state' = other.state
    /\ stack' = other.stack
    /\ saved' = other.saved
    /\ x_range' = other.x_range
    /\ y_range' = other.y_range
    /\ program' = other.program
    /\ IF same_system
       THEN UNCHANGED lsystem_vars
       ELSE /\ axiom' = other.axiom
            /\ production_rules' = other.production_rules
    /\ UNCHANGED <<entry, same_system, out_vars>>

ConcSystems == {KOCH_CURVE, BARNSLEY_FERN, LSystem(<<"F", "]">>, NoRules)}

ConcArgs ==
    {CallArgs(sys, nb, ai, PresetStep * Unit, 0) :
        sys \in ConcSystems, nb \in 0..MaxConcIter, ai \in 1..MaxTurn}

InitConcurrent ==
    /\ entry = "compile_program"
    /\ same_system \in BOOLEAN
    /\ \E a1 \in ConcArgs, a2 \in ConcArgs :
          /\ same_system => a1.system = a2.system
          /\ call_args = <<a1, a2>>
    /\ other = EntryFrame(call_args[2])
    /\ pc = "compile_200"
    /\ error = "none"
    /\ axiom = call_args[1].system.axiom
    /\ production_rules = call_args[1].system.production_rules
    /\ n = 0
    /\ iter = 0
    /\ curr = <<>>
    /\ ret = <<>>
    /\ nb_iterations = call_args[1].nb_iterations
    /\ result = NoResult
    /\ symbols = <<>>
    /\ angle_increment = call_args[1].angle_increment
    /\ step_size = call_args[1].step_size
    /\ init_angle = call_args[1].init_angle
    /\ idx = 0
    /\ heap = <<StartState(init_angle)>>
    /\ state = 1
    /\ stack = <<>>
    /\ saved = <<>>
    /\ x_range = EmptyRange
    /\ y_range = EmptyRange
    /\ program = <<>>
    /\ lines = <<>>
    /\ file = NoFile

NextConcurrent ==
    \/ Next
    \/ Switch

SpecConcurrent == InitConcurrent /\ [][NextConcurrent]_vars

(* what one compile_program call returns when it runs alone *)
RECURSIVE nth_iteration(_, _)
nth_iteration(sys, k) ==
    IF k = 0 THEN sys.axiom
    ELSE next_str(sys.production_rules, nth_iteration(sys, k - 1))

Locals(st, stk, xr, yr, prog, raised) ==
    [state |-> st, stack |-> stk, x_range |-> xr, y_range |-> yr,
     program |-> prog, raised |-> raised]

Front(q) == SubSeq(q, 1, Len(q) - 1)

LoopBody(t, s, ai, ss) ==
    IF t.raised THEN t
    ELSE CASE s = "+" ->
                [t EXCEPT !.state.orientation = angle_increment_by(@, ai)]
           [] s = "-" ->
                [t EXCEPT !.state.orientation = angle_increment_by(@, -ai)]
           [] s \in {"F", "G"} ->
                LET np == add(t.state.position,
                              to_vector(t.state.orientation, ss))
                IN Locals([t.state EXCEPT !.position = np], t.stack,
                          update(t.x_range, np.x), update(t.y_range, np.y),
                          Append(t.program,
                                 GCodeInstruction(LINEAR_INTERPOLATION, np)),
                          FALSE)
           [] s = "[" -> [t EXCEPT !.stack = Append(@, t.state)]
           [] s = "]" ->
                IF t.stack = <<>> THEN [t EXCEPT !.raised = TRUE]
                ELSE LET prev_state == t.stack[Len(t.stack)]
                     IN IF TurtleStateEq(prev_state, t.state)
                        THEN [t EXCEPT !.stack = Front(@)]
                        ELSE Locals(prev_state, Front(t.stack), t.x_range,
                                    t.y_range,
                                    t.program \o
                                      << GCodeInstruction(RAPID_POSITIONING,
                                             above(t.state.position)),
                                         GCodeInstruction(RAPID_POSITIONING,
                                             above(prev_state.position)),
                                         GCodeInstruction(LINEAR_INTERPOLATION,
                                             prev_state.position) >>,
                                    FALSE)
           [] OTHER -> t

RECURSIVE build_g_code(_, _, _, _, _)
build_g_code(syms, k, ai, ss, ia) ==
    IF k = 0
    THEN Locals(StartState(ia), <<>>, EmptyRange, EmptyRange, <<>>, FALSE)
    ELSE LoopBody(build_g_code(syms, k - 1, ai, ss, ia), syms[k], ai, ss)

compile_program(a) ==
    LET syms == nth_iteration(a.system, a.nb_iterations)
        t == build_g_code(syms, Len(syms), a.angle_increment, a.step_size,
                          a.init_angle)
    IN IF t.raised
       THEN [pc |-> "raised", result |-> NoResult]
       ELSE [pc |-> "returned",
             result |-> ProgramWithMeta(t.program, t.x_range, t.y_range,
                                        a.nb_iterations, a.step_size,
                                        a.angle_increment, a.init_angle)]

Finished(f) == f.pc \in {"returned", "raised"}

AsAlone(f, a) ==
    Finished(f) =>
        /\ f.pc = compile_program(a).pc
        /\ f.result = compile_program(a).result

\* C16: two compile_program calls interleaved in any order, also on the same
\* LSystem object, each return the Program they return when run alone, and
\* no step of the running call writes the locals of the suspended one or the
\* LSystem.
C16_Independent ==
    /\ [](AsAlone(Frame, call_args[1]) /\ AsAlone(other, call_args[2]))
    /\ [][IF other' = other
          THEN lsystem_vars' = lsystem_vars
          ELSE other' = Frame /\ Frame' = other]_vars

C16_Witness ==
    /\ same_system
    /\ call_args[1] # call_args[2]
    /\ pc = "returned"
    /\ other.pc = "returned"
    /\ result.code # other.result.code
    /\ Len(result.code) > 5
    /\ Len(other.result.code) >= 5

(* ------------------ properties of compile_program --------------------- *)
KochRun ==
    /\ entry = "compile_program"
    /\ LSystem(axiom, production_rules) = KOCH_CURVE
    /\ nb_iterations = 1
    /\ angle_increment = 1
    /\ step_size = 5 * Unit
    /\ init_angle = 0

DrawAt(e, x, y) ==
    /\ e.command = LINEAR_INTERPOLATION
    /\ e.dst_pos = Position3D(x * Unit, y * Unit, LINE_DEPTH)

\* C6: the Koch scenario (axiom F, F -> F+F-F-F+F, 1 iteration, quarter
\* turn, step 5, initial angle 0) compiles to exactly 5 linear-draw events at
\* (5,0), (5,5), (10,5), (10,0), (15,0), all at the drawing depth, with
\* x_range = (0, 15) and y_range = (0, 5).
C6_Koch ==
    (KochRun /\ pc = "returned") =>
        /\ Len(result.code) = 5
        /\ DrawAt(result.code[1], 5, 0)
        /\ DrawAt(result.code[2], 5, 5)
        /\ DrawAt(result.code[3], 10, 5)
        /\ DrawAt(result.code[4], 10, 0)
        /\ DrawAt(result.code[5], 15, 0)
        /\ result.x_range = PositionRange(0, 15 * Unit)
        /\ result.y_range = PositionRange(0, 5 * Unit)

(* ------------------ properties of build_g_code ------------------------ *)
Depth(seq, k) ==
    Cardinality({i \in 1..k : seq[i] = "["}) - Cardinality({i \in 1..k : seq[i] = "]"})

WellFormed(seq) ==
    /\ \A k \in 0..Len(seq) : Depth(seq, k) >= 0
    /\ Depth(seq, Len(seq)) = 0

NoBranch(seq) == \A i \in 1..Len(seq) : seq[i] \notin {"[", "]"}

CountDraw(seq, k) == Cardinality({i \in 1..k : seq[i] \in {"F", "G"}})

InitialState == StartState(init_angle)

Popping == AtSymbol({"]"}) /\ stack # <<>>

popped == heap[stack[Len(stack)]]

IsEvent(e, command, x, y, z) ==
    e.command = command /\ e.dst_pos.x = x /\ e.dst_pos.y = y /\ e.dst_pos.z = z

\* C2 (step): a `]` whose popped state differs from the current one appends
\* rapid-above-current, rapid-above-popped, linear-to-popped, in this order,
\* and the current state becomes the popped state.
C2_Step ==
    (Popping /\ popped # curr_state) =>
        /\ Len(program') = Len(program) + 3
        /\ SubSeq(program', 1, Len(program)) = program
        /\ IsEvent(program'[Len(program) + 1], RAPID_POSITIONING,
                   curr_state.position.x, curr_state.position.y, SAFE_Z)
        /\ IsEvent(program'[Len(program) + 2], RAPID_POSITIONING,
                   popped.position.x, popped.position.y, SAFE_Z)
        /\ IsEvent(program'[Len(program) + 3], LINEAR_INTERPOLATION,
                   popped.position.x, popped.position.y, popped.position.z)
        /\ heap'[state'] = popped

\* C2 (scenario): `[ F ]` returns four events, the draw at the forward
\* position then the three recovery events, and ends in the initial state.
C2_Scenario ==
    (pc = "returned" /\ symbols = <<"[", "F", "]">>) =>
        LET fwd == add(InitialState.position,
                       to_vector(InitialState.orientation, step_size))
        IN /\ Len(program) = 4
           /\ IsEvent(program[1], LINEAR_INTERPOLATION, fwd.x, fwd.y, LINE_DEPTH)
           /\ IsEvent(program[2], RAPID_POSITIONING, fwd.x, fwd.y, SAFE_Z)
           /\ IsEvent(program[3], RAPID_POSITIONING, 0, 0, SAFE_Z)
           /\ IsEvent(program[4], LINEAR_INTERPOLATION, 0, 0, LINE_DEPTH)
           /\ curr_state = InitialState

\* C2: branch pop transition of build_g_code: three recovery events in order
\* when the popped state differs, then the popped state is current; `[ F ]`
\* gives exactly four events and ends in the initial state.
C2_BranchPop == [][C2_Step]_vars /\ []C2_Scenario

C2_Witness ==
    /\ pc = "returned"
    /\ symbols = <<"[", "F", "]">>
    /\ Len(program) = 4

\* C3: in a well-formed sequence the turtle state right after each `]` is the
\* state at the matching `[`, and the stack is empty when the whole sequence
\* has been processed.
C3_Balanced ==
    /\ [][(WellFormed(symbols) /\ Popping) =>
            heap'[state'] = saved[Len(saved)]]_vars
    /\ []((WellFormed(symbols) /\ idx = Len(symbols)) => stack = <<>>)

C3_Witness ==
    /\ pc = "returned"
    /\ symbols = <<"[", "+", "F", "]">>
    /\ stack = <<>>
    /\ curr_state = InitialState

\* C4: a `]` that pops a state equal to the current one, in particular a `]`
\* right after its `[`, appends no event and leaves the turtle state and both
\* ranges unchanged.
C4_Elision ==
    [][(Popping /\ (popped = curr_state \/ symbols[idx] = "[")) =>
          /\ program' = program
          /\ heap'[state'] = curr_state
          /\ x_range' = x_range
          /\ y_range' = y_range]_vars

C4_Witness ==
    /\ idx = 3
    /\ SubSeq(symbols, 1, 3) = <<"F", "[", "]">>
    /\ Len(program) = 1

EmptyPop == AtSymbol({"]"}) /\ stack = <<>>

C7_Monotone ==
    /\ [](idx = 0 => /\ x_range = PositionRange(inf, -inf)
                     /\ y_range = PositionRange(inf, -inf))
    /\ [][/\ x_range'.min <= x_range.min
          /\ x_range'.max >= x_range.max
          /\ y_range'.min <= y_range.min
          /\ y_range'.max >= y_range.max]_vars

C7_Witness ==
    /\ x_range.min < inf
    /\ x_range.max > x_range.min
    /\ y_range.max > -inf

\* C8: without `[` and `]`, exactly the F and G symbols emit an event, each a
\* linear draw at the position reached, in order; + - A B X emit nothing and
\* A B X leave position and orientation alone.
C8_NoBranch ==
    /\ [](NoBranch(symbols) =>
            /\ Len(program) = CountDraw(symbols, idx)
            /\ \A k \in 1..Len(program) :
                  program[k].command = LINEAR_INTERPOLATION)
    /\ [][(NoBranch(symbols) /\ pc = "build_g_code" /\ idx < Len(symbols)) =>
            /\ symbols[idx + 1] \in {"F", "G"} =>
                  /\ Len(program') = Len(program) + 1
                  /\ SubSeq(program', 1, Len(program)) = program
                  /\ program'[Len(program')].dst_pos = heap'[state'].position
            /\ symbols[idx + 1] \in {"+", "-", "A", "B", "X"} =>
                  program' = program
            /\ symbols[idx + 1] \in {"A", "B", "X"} =>
                  heap'[state'] = curr_state]_vars

C8_Witness ==
    /\ pc = "returned"
    /\ symbols = <<"F", "+", "X", "G">>
    /\ Len(program) = 2

Min(a, b) == IF a < b THEN a ELSE b

\* C17: the states on the branch stack are independent copies: no step
\* (turn, forward move, push, pop and restore) changes the position or
\* orientation of a state that stays on the stack, and the current state is
\* never one of the stacked objects.
C17_Independent ==
    /\ [](\A i \in 1..Len(stack) :
            /\ stack[i] # state
            /\ \A j \in 1..Len(stack) : i # j => stack[i] # stack[j])
    /\ [][\A i \in 1..Min(Len(stack), Len(stack')) :
            /\ stack'[i] = stack[i]
            /\ heap'[stack'[i]] = heap[stack[i]]]_vars

C17_Witness ==
    /\ Len(stack) >= 2
    /\ state # 1
    /\ curr_state.position # heap[stack[Len(stack)]].position
    /\ heap[stack[1]] = heap[stack[2]]

InRange(r, v) == r.min <= v /\ v <= r.max

\* C18: the ranges bound the drawing: once an F or G has been processed,
\* min <= max on both axes, and every position reached by an F or G move lies
\* within x_range and y_range.
C18_RangesBound ==
    /\ [](CountDraw(symbols, idx) >= 1 =>
            /\ x_range.min <= x_range.max
            /\ y_range.min <= y_range.max)
    /\ []((NoBranch(symbols) /\ pc = "returned") =>
            \A k \in 1..Len(program) :
                /\ InRange(x_range, program[k].dst_pos.x)
                /\ InRange(y_range, program[k].dst_pos.y))
    /\ [][AtSymbol({"F", "G"}) =>
            /\ InRange(x_range', heap'[state'].position.x)
            /\ InRange(y_range', heap'[state'].position.y)]_vars

\* C19: after any prefix processed without failing, the destination of the
\* last emitted event is the current turtle position; with no event emitted
\* the turtle is at the origin at drawing depth.
C19_ToolTracksTurtle ==
    (pc # "raised") =>
        IF program = <<>>
        THEN curr_state.position = Position3D(0, 0, LINE_DEPTH)
        ELSE program[Len(program)].dst_pos = curr_state.position

C19_Witness ==
    /\ pc = "returned"
    /\ symbols = <<"[", "F", "]", "F">>
    /\ Len(program) = 5

ToolPos(prog, k) ==
    IF k = 0 THEN Position3D(0, 0, LINE_DEPTH) ELSE prog[k].dst_pos

\* C20: no unintended cut: an event that changes x or y is either the event
\* of an F or G symbol or a rapid move between two rapid events at the safe
\* height, and every linear-draw event is at the drawing depth.
C20_NoCut ==
    /\ [](\A k \in 1..Len(program) :
            program[k].command = LINEAR_INTERPOLATION =>
                program[k].dst_pos.z = LINE_DEPTH)
    /\ [][\A k \in (Len(program) + 1)..Len(program') :
            LET p == ToolPos(program', k - 1)
                q == program'[k].dst_pos
            IN  (p.x # q.x \/ p.y # q.y) =>
                    \/ symbols[idx + 1] \in {"F", "G"}
                    \/ /\ p.z = SAFE_Z
                       /\ q.z = SAFE_Z
                       /\ k > 1
                       /\ program'[k - 1].command = RAPID_POSITIONING
                       /\ program'[k].command = RAPID_POSITIONING]_vars

C20_Witness ==
    /\ pc = "returned"
    /\ symbols = <<"[", "F", "]">>
    /\ program[2].dst_pos.x # program[3].dst_pos.x
    /\ program[2].dst_pos.z = SAFE_Z
    /\ program[3].dst_pos.z = SAFE_Z

====
